---- MODULE Spec2Model ----
(***************************************************************************)
(* Model of the chat widget's message orchestration (chat-widget.js, the   *)
(* suggestion-chip version with the activeRequests counter): sendMessage   *)
(* with its silent retry, the typing indicator, the "Still working"        *)
(* notice, and transcribeAudio; of the chat proxy (unnamed/part_001: the   *)
(* handler with fetchWithRetry and extractResponseText); and of            *)
(* getSessionId.                                                           *)
(*                                                                         *)
(* JavaScript runs each continuation (from one await to the next) to       *)
(* completion, so every action below is one such continuation.             *)
(***************************************************************************)
EXTENDS Integers, Sequences, FiniteSets, TLC

\* ------------------------------------------------------------------ bounds
MaxMsgs == 2      \* logical user messages (sendMessage calls with retryCount 0)
MaxFields == 2    \* fields set in a webhook payload object
MaxElems == 2     \* elements of a webhook payload array
MaxGets == 3      \* calls of getSessionId
MaxClock == 2     \* readings of Date.now()
MaxEarlier == 4   \* replies rendered before the messages followed

Msgs == 1..MaxMsgs

\* ------------------------------------------------- inputs from the network
\* response.ok / response.status class of an answer of /api/chat
Statuses == {"ok", "4xx", "5xx"}

\* what response.json() yields:
\*   text      {response: "Hello"}            non-blank string, no suggestions
\*   textSugg  {response: "Hello", suggestions: ["a", ...]}
\*   textNoList {response: "Hello", suggestions: []}, or suggestions that
\*             are not an array
\*   blank     {response: "   "}              truthy, blank after trim()
\*   empty     {} or {response: ""}           no response / message field
\*   null      JSON null
\*   nonstring {response: 5}                  truthy, has no trim()
\*   badjson   the body is not JSON: json() rejects
Bodies ==
    {"text", "textSugg", "textNoList", "blank", "empty", "null", "nonstring",
     "badjson"}

VARIABLES
    activeRequests,   \* let activeRequests
    messageCount,     \* let messageCount
    typingShown,      \* #typing-indicator is in the DOM
    slowNotices,      \* the #slow-notice elements in DOM order, by owning message
    pc,               \* per message: position of its sendMessage invocation
    retryCount,       \* per message: retryCount of the current invocation
    slowNoticeTimer,  \* per message: its 15 s timer is "pending", else "none"
    response,         \* per message: status class of `response` while the
                      \* invocation runs, "none" if unset
    delayMs,          \* per message: the delay(ms) being awaited, 0 if none
    dispatches,       \* per message: number of fetch('/api/chat') calls
    userEntries,      \* per message: user bubbles appended
    bot,              \* per message: bot bubbles appended, in order
    chips,            \* per message: suggestion set rendered after its reply
    tpc,              \* the latest transcribeAudio call: where it is, or how
                      \* it ended ("sent" its transcript, or the bubble it showed)
    \* --- the serverless function being followed, one invocation at a
    \* time: the chat proxy (unnamed/part_001) or the transcription proxy
    \* (api/transcribe.js)
    req,              \* the request being handled: [method, body]
    ppc,              \* position of the handler
    attempt,          \* fetchWithRetry: let attempt
    lastError,        \* fetchWithRetry: let lastError
    n8nResponse,      \* status class of the answer fetchWithRetry returned
    calls,            \* the upstream calls of this invocation, in order: of
                      \* the webhook [start, end, outcome], times in ms since
                      \* the request; of the transcription engine
                      \* [contentType, bytes, outcome]
    elapsed,          \* ms since the request arrived
    res,              \* the answer sent: [status, cors, bare, error, response,
                      \* transcript, success]
    served,           \* client dispatches that have reached the handler
    \* --- extractResponseText as a function of its argument
    data,             \* the parsed webhook payload
    extracted,        \* what extractResponseText(data) returned, Undef before the call
    \* --- getSessionId
    storage,          \* localStorage.getItem('chat_session_id')
    now,              \* Date.now()
    returned,         \* the values getSessionId returned, in call order
    \* --- audio capture (startRecording, stopRecording and their callbacks)
    supported,        \* the types MediaRecorder.isTypeSupported accepts
    isRecording,      \* let isRecording
    mediaRecorder,    \* let mediaRecorder: Null, or the recorder held:
                      \* [id, requested, mimeType, state, delivered]
    audioChunks,      \* let audioChunks: the chunks kept, [size, from]
    recordedMimeType, \* let recordedMimeType
    asking,           \* startRecording calls awaiting getUserMedia
    onstopQueued,     \* the stopped recorders whose onstop has not run
                      \* yet, in the order they stopped
    streams,          \* per stream handed out by getUserMedia: its tracks
                      \* are "live" or "stopped"
    reader,           \* the FileReader reading a blob [size, type], or Null
    recNotice,        \* the last bubble the capture code appended
    \* --- the rest of the page
    isSending,        \* let isSending of the input-locking version of the
                      \* widget (chat-widget.js, lines 1 to 333)
    usedSets          \* the chip sets whose chips carry the class 'used':
                      \* 0 is the set on screen before message 1, m the
                      \* set rendered with the reply to message m

voiceVars == <<tpc>>
widgetVars == <<activeRequests, messageCount, typingShown, slowNotices, pc,
                retryCount, slowNoticeTimer, response, delayMs,
                dispatches, userEntries, bot, chips, tpc>>
proxyVars == <<req, ppc, attempt, lastError, n8nResponse, calls, elapsed, res>>
extractVars == <<data, extracted>>
sessionVars == <<storage, now, returned>>
captureVars == <<supported, isRecording, mediaRecorder, audioChunks,
                 recordedMimeType, asking, onstopQueued, streams, reader,
                 recNotice>>
\* the serverless functions and the pure functions followed on their own
serverVars == <<proxyVars, served, extractVars, sessionVars>>
\* everything the widget's message and transcription handlers never touch
pageVars == <<usedSets, isSending>>
otherVars == <<serverVars, captureVars, pageVars>>
vars == <<widgetVars, otherVars>>

\* ----------------------------------------------------------------- helpers
Max(a, b) == IF a >= b THEN a ELSE b

\* document.getElementById('slow-notice')?.remove(): the first one in the DOM
removeSlowNotice(ns) == IF ns = <<>> THEN ns ELSE Tail(ns)

\* clearTimeout(slowNoticeTimer): its callback will not run any more
clearTimeout(t) == "none"

\* activeRequests = Math.max(0, activeRequests - 1)
DecrementActive_min(a) == IF a - 1 <= 0 THEN a - 1 ELSE 0
DecrementActive(a) == Max(0, a - 1)

\* activeRequests++ // Re-increment for the retry
ReIncrement(a) == a + 1

\* retryCount < 1
CanRetry_two(rc) == rc < 2
CanRetry(rc) == rc < 1

\* retryCount < 1 && !isTimeout
CatchRetries_anyError(rc, isTimeout) == CanRetry(rc)
CatchRetries(rc, isTimeout) == CanRetry(rc) /\ ~isTimeout

\* const serverMsg = data?.response || data?.message; if (serverMsg)
HasServerMsg_never(d) == FALSE
HasServerMsg(d) ==
    d \in {"text", "textSugg", "textNoList", "blank", "nonstring"}

\* botResponse && botResponse.trim()
Usable_noTrim(d) == d \in {"text", "textSugg", "textNoList", "blank"}
Usable(d) == d \in {"text", "textSugg", "textNoList"}

\* Array.isArray(data.suggestions) && data.suggestions.length > 0
HasSuggestions_never(d) == FALSE
HasSuggestions(d) == d = "textSugg"

\* data.response on null, or .trim() on a non-string: TypeError
ThrowsOnOk(d) == d \in {"null", "nonstring"}

getContextualFallbacks_strict(mc) ==
    IF mc < 1 THEN "explore"
    ELSE IF mc < 3 THEN "action"
    ELSE "convert"
getContextualFallbacks(mc) ==
    IF mc <= 1 THEN "explore"
    ELSE IF mc <= 3 THEN "action"
    ELSE "convert"

\* the first message slot not yet used
NextId == Cardinality({m \in Msgs : pc[m] # "idle"}) + 1

\* ------------------------------------------------------ JavaScript values
\* A value is [t, v]: its type tag and its content.  A string is the
\* sequence of its characters (" " is whitespace), so that trim() is a
\* computation; an object is the function from the field paths
\* extractResponseText reads to their values; an array is a sequence.
Undef == [t |-> "undef", v |-> <<>>]
Null == [t |-> "null", v |-> <<>>]
Num == [t |-> "num", v |-> <<>>]
Str(s) == [t |-> "str", v |-> s]
Obj(f) == [t |-> "obj", v |-> f]
Arr(e) == [t |-> "arr", v |-> e]

\* String.prototype.trim()
RECURSIVE TrimLeft(_)
TrimLeft(s) ==
    IF s = <<>> THEN s
    ELSE IF Head(s) = " " THEN TrimLeft(Tail(s)) ELSE s

RECURSIVE TrimRight(_)
TrimRight(s) ==
    IF s = <<>> THEN s
    ELSE IF s[Len(s)] = " " THEN TrimRight(SubSeq(s, 1, Len(s) - 1)) ELSE s

Trim(s) == TrimRight(TrimLeft(s))

\* ToBoolean: undefined, null and "" are falsy; a number here is non-zero
Truthy(x) == x.t \in {"num", "obj", "arr"} \/ (x.t = "str" /\ x.v # <<>>)

\* item.response || item.output || ...: the first truthy operand, else the last
RECURSIVE OrChain(_, _)
OrChain(f, paths) ==
    IF Len(paths) = 1 THEN f[paths[1]]
    ELSE IF Truthy(f[Head(paths)]) THEN f[Head(paths)]
    ELSE OrChain(f, Tail(paths))

DirectPaths == <<"response", "output", "text", "message", "answer">>
NestedPaths == <<"json.response", "json.output", "json.text",
                 "data.response", "data.output", "body.response">>
Paths == {DirectPaths[i] : i \in 1..Len(DirectPaths)}
             \cup {NestedPaths[i] : i \in 1..Len(NestedPaths)}

\* x && typeof x === 'string' && x.trim()
NonBlankString(x) == Truthy(x) /\ x.t = "str" /\ Trim(x.v) # <<>>

\* one iteration of the loop over the candidates: the text it returns, or
\* Null when it falls through to the next candidate
FromItem(item) ==
    IF item.t # "obj" THEN Null
    ELSE LET direct == OrChain(item.v, DirectPaths)
             nested == OrChain(item.v, NestedPaths)
         IN  IF NonBlankString(direct) THEN Str(Trim(direct.v))
             ELSE IF NonBlankString(nested) THEN Str(Trim(nested.v))
             ELSE Null

RECURSIVE ScanCandidates(_)
ScanCandidates(candidates) ==
    IF candidates = <<>> THEN Null
    ELSE IF FromItem(Head(candidates)).t = "str" THEN FromItem(Head(candidates))
    ELSE ScanCandidates(Tail(candidates))

extractResponseText(d) ==
    ScanCandidates(IF d.t = "arr" THEN d.v ELSE <<d>>)

\* ------------------------------------------------------ chat proxy helpers
\* fetchWithRetry(url, options, {retries: 2, delayMs: 2000, timeoutMs: 55000})
Retries == 2
RetryDelayMs == 2000
TimeoutMs == 55000

\* const clientTimeout = setTimeout(() => controller.abort(), 58000)
ClientTimeoutMs == 58000

\* export const maxDuration = 60: seconds the platform lets an invocation run
maxDuration == 60

\* how long the webhook takes when it answers or fails before the abort
LatencyMs == {1000, 30000}

\* response.status >= 500 && attempt < retries
RetryOn5xx(o, a) == o = "5xx" /\ a < Retries

\* catch (err) { ... if (attempt < retries) await delay }
RetryAfterThrow_always(a) == TRUE
RetryAfterThrow(a) == a < Retries

\* error.name === 'AbortError' || error.message?.includes('abort')
IsTimeout(err) == err = "AbortError"

TimeoutMsg ==
    Str(<<"I'm taking a bit longer than usual - please send your message again.">>)
HiccupMsg == Str(<<"I ran into a hiccup, please try again in a moment.">>)

NoReq == [method |-> "none", body |-> "none"]
NoRes == [status |-> 0, cors |-> FALSE, bare |-> FALSE, error |-> "",
          response |-> Undef, sessionId |-> Undef, suggestions |-> Undef,
          transcript |-> Undef, success |-> FALSE]

\* ------------------------------------------------------ session id helpers
\* 'session_' + Date.now() + '_' + Math.random().toString(36).substr(2, 9)
Token(t, rnd) == <<t, rnd>>
Absent == <<>>

\* what Math.random().toString(36).substr(2, 9) can yield
Rands == {"r1", "r2"}

\* if (!id)
NeedsNewId_always(id) == TRUE
NeedsNewId(id) == id = Absent

\* ---------------------------------------------------------------- initial
\* no message is being processed
NoMessages ==
    /\ activeRequests = 0
    /\ typingShown = FALSE
    /\ slowNotices = <<>>
    /\ pc = [m \in Msgs |-> "idle"]
    /\ retryCount = [m \in Msgs |-> 0]
    /\ slowNoticeTimer = [m \in Msgs |-> "none"]
    /\ response = [m \in Msgs |-> "none"]
    /\ delayMs = [m \in Msgs |-> 0]
    /\ dispatches = [m \in Msgs |-> 0]
    /\ userEntries = [m \in Msgs |-> 0]
    /\ bot = [m \in Msgs |-> <<>>]
    /\ chips = [m \in Msgs |-> "none"]
    /\ tpc = "idle"
    /\ usedSets = {}
    /\ isSending = FALSE

WidgetInit ==
    /\ messageCount = 0
    /\ NoMessages

\* no request has arrived at the proxy
ProxyInit ==
    /\ req = NoReq
    /\ ppc = "idle"
    /\ attempt = 0
    /\ lastError = "none"
    /\ n8nResponse = "none"
    /\ calls = <<>>
    /\ elapsed = 0
    /\ res = NoRes
    /\ served = 0

\* a first visit: nothing stored
SessionInit ==
    /\ storage = Absent
    /\ now = 0
    /\ returned = <<>>

\* getSupportedMimeType: const candidates
Candidates ==
    << "audio/webm;codecs=opus", "audio/webm", "audio/ogg;codecs=opus",
       "audio/ogg", "audio/mp4;codecs=mp4a", "audio/mp4" >>

CandidateSet == {Candidates[i] : i \in 1..Len(Candidates)}

\* nothing is being recorded, read or asked for
RecorderInit ==
    /\ isRecording = FALSE
    /\ mediaRecorder = Null
    /\ audioChunks = <<>>
    /\ recordedMimeType = "audio/webm"
    /\ asking = 0
    /\ onstopQueued = <<>>
    /\ streams = <<>>
    /\ reader = Null
    /\ recNotice = "none"

\* the state after the script has loaded, less the platform it runs on
LoadedInit ==
    /\ WidgetInit
    /\ ProxyInit
    /\ data = Null
    /\ extracted = Undef
    /\ SessionInit
    /\ RecorderInit

\* on a platform that records every candidate type
Init ==
    /\ LoadedInit
    /\ supported = CandidateSet

\* ------------------------------------------------------------ sendMessage
\* if (retryCount === 0) addMessage(text, true)
AddsUserEntry_always(rc) == TRUE
AddsUserEntry(rc) == rc = 0

\* sendMessage(text, {retryCount: rc}) from its entry to `await fetch(...)`
sendMessage(m, rc) ==
    /\ retryCount' = [retryCount EXCEPT ![m] = rc]
    /\ userEntries' = [userEntries EXCEPT ![m] =
                         IF AddsUserEntry(rc) THEN @ + 1 ELSE @]
    /\ activeRequests' = IF rc = 0 THEN activeRequests + 1 ELSE activeRequests
    /\ typingShown' = TRUE
    /\ slowNoticeTimer' = [slowNoticeTimer EXCEPT ![m] =
                             IF rc = 0 THEN "pending" ELSE "none"]
    /\ response' = [response EXCEPT ![m] = "none"]
    /\ delayMs' = [delayMs EXCEPT ![m] = 0]
    /\ dispatches' = [dispatches EXCEPT ![m] = @ + 1]
    /\ pc' = [pc EXCEPT ![m] = "fetching"]
    /\ UNCHANGED <<messageCount, slowNotices, bot, chips>>

\* the send button, the Enter key or a suggestion chip: sendMessage(text)
UserSend ==
    /\ NextId \in Msgs
    /\ sendMessage(NextId, 0)
    /\ UNCHANGED voiceVars
    /\ UNCHANGED otherVars

\* the 15 s timer of a first attempt fires while its fetch is pending
SlowNoticeFire(m) ==
    /\ pc[m] = "fetching"
    /\ slowNoticeTimer[m] = "pending"
    /\ slowNoticeTimer' = [slowNoticeTimer EXCEPT ![m] = "none"]
    /\ slowNotices' = Append(slowNotices, m)
    /\ UNCHANGED <<activeRequests, messageCount, typingShown, pc, retryCount,
                   response, delayMs, dispatches, userEntries, bot, chips>>
    /\ UNCHANGED voiceVars
    /\ UNCHANGED otherVars

\* addMessage(text, false) as the last statement of the invocation, which
\* then returns: its locals are gone
Render(m, text) ==
    /\ bot' = [bot EXCEPT ![m] = Append(@, text)]
    /\ pc' = [pc EXCEPT ![m] = "done"]
    /\ response' = [response EXCEPT ![m] = "none"]
    /\ UNCHANGED <<activeRequests, delayMs>>

\* activeRequests++; await delay(ms)
Backoff(m, ms) ==
    /\ activeRequests' = ReIncrement(activeRequests)
    /\ delayMs' = [delayMs EXCEPT ![m] = ms]
    /\ pc' = [pc EXCEPT ![m] = "backoff"]
    /\ UNCHANGED <<bot, response>>

\* the catch block; isTimeout is error.name === 'AbortError'.  `response`
\* is a const of the try block and does not exist here.
Catch(m, isTimeout) ==
    /\ slowNoticeTimer' = [slowNoticeTimer EXCEPT ![m] = clearTimeout(@)]
    /\ slowNotices' = removeSlowNotice(slowNotices)
    /\ typingShown' = FALSE
    /\ response' = [response EXCEPT ![m] = "none"]
    /\ IF CatchRetries(retryCount[m], isTimeout)
       THEN /\ activeRequests' = ReIncrement(activeRequests)
            /\ delayMs' = [delayMs EXCEPT ![m] = 3000]
            /\ pc' = [pc EXCEPT ![m] = "backoff"]
            /\ bot' = bot
       ELSE /\ bot' = [bot EXCEPT ![m] =
                         Append(@, IF isTimeout THEN "timeout" ELSE "hiccup")]
            /\ pc' = [pc EXCEPT ![m] = "done"]
            /\ UNCHANGED <<activeRequests, delayMs>>
    /\ UNCHANGED <<messageCount, retryCount, dispatches, userEntries, chips>>

\* fetch rejects with a network error
FetchReject(m) ==
    /\ pc[m] = "fetching"
    /\ Catch(m, FALSE)
    /\ UNCHANGED voiceVars
    /\ UNCHANGED otherVars

\* the 58 s clientTimeout fires: controller.abort(), fetch rejects with
\* AbortError.  On a first attempt the 15 s timer, set earlier in the same
\* invocation, has fired before.
AbortFire(m) ==
    /\ pc[m] = "fetching"
    /\ slowNoticeTimer[m] # "pending"
    /\ Catch(m, TRUE)
    /\ UNCHANGED voiceVars
    /\ UNCHANGED otherVars

\* fetch resolves with an answer of status class st; up to `await response.json()`
FetchResolve(m, st) ==
    /\ pc[m] = "fetching"
    /\ slowNoticeTimer' = [slowNoticeTimer EXCEPT ![m] = clearTimeout(@)]
    /\ slowNotices' = removeSlowNotice(slowNotices)
    /\ activeRequests' = DecrementActive(activeRequests)
    /\ typingShown' = IF activeRequests' = 0 THEN FALSE ELSE typingShown
    /\ response' = [response EXCEPT ![m] = st]
    /\ pc' = [pc EXCEPT ![m] = "parsing"]
    /\ UNCHANGED <<messageCount, retryCount, delayMs, dispatches,
                   userEntries, bot, chips>>
    /\ UNCHANGED voiceVars
    /\ UNCHANGED otherVars

\* if (!response.ok) { ... return; }
NonOkBranch(m, d) ==
    /\ IF HasServerMsg(d) THEN Render(m, "server")
       ELSE IF CanRetry(retryCount[m]) THEN Backoff(m, 2500)
       ELSE Render(m, "trouble")
    /\ UNCHANGED <<messageCount, typingShown, slowNotices, retryCount,
                   slowNoticeTimer, dispatches, userEntries, chips>>

\* the ok answer: a usable reply with its chips, or the blank-reply retry
OkBranch(m, d) ==
    IF Usable(d)
    THEN /\ messageCount' = messageCount + 1
         /\ Render(m, "reply")
         /\ chips' = [chips EXCEPT ![m] =
                        IF HasSuggestions(d) THEN "payload"
                        ELSE getContextualFallbacks(messageCount')]
         /\ UNCHANGED <<typingShown, slowNotices, retryCount,
                        slowNoticeTimer, dispatches, userEntries>>
    ELSE /\ IF CanRetry(retryCount[m]) THEN Backoff(m, 2000)
            ELSE Render(m, "didntcatch")
         /\ UNCHANGED <<messageCount, typingShown, slowNotices, retryCount,
                        slowNoticeTimer, dispatches, userEntries, chips>>

\* response.json() settles with body d; the rest of the try block, and the
\* catch block when json() rejects or the ok branch throws a TypeError
JsonSettle(m, d) ==
    /\ pc[m] = "parsing"
    /\ IF d = "badjson" THEN Catch(m, FALSE)
       ELSE IF response[m] # "ok" THEN NonOkBranch(m, d)
       ELSE IF ThrowsOnOk(d) THEN Catch(m, FALSE)
       ELSE OkBranch(m, d)
    /\ UNCHANGED voiceVars
    /\ UNCHANGED otherVars

\* the backoff delay elapses: return sendMessage(text, {retryCount: retryCount + 1})
BackoffElapsed_noReinvoke(m) ==
    /\ pc[m] = "backoff"
    /\ pc' = [pc EXCEPT ![m] = "done"]
    /\ response' = [response EXCEPT ![m] = "none"]
    /\ delayMs' = [delayMs EXCEPT ![m] = 0]
    /\ UNCHANGED <<activeRequests, messageCount, typingShown, slowNotices,
                   retryCount, slowNoticeTimer, dispatches, userEntries, bot,
                   chips>>
    /\ UNCHANGED voiceVars
    /\ UNCHANGED otherVars

BackoffElapsed(m) ==
    /\ pc[m] = "backoff"
    /\ sendMessage(m, retryCount[m] + 1)
    /\ UNCHANGED voiceVars
    /\ UNCHANGED otherVars

\* -------------------------------------------------------- transcribeAudio
\* The bubbles transcribeAudio appends belong to no logical message; the
\* one its latest call appended is recorded in tpc.  One call is followed
\* at a time; what a call does to the messages (start one) UserSend can do
\* at any moment.
TEnded == {"idle", "sent", "notunderstood", "failed"}

\* transcribeAudio(base64Audio, mimeType) up to `await fetch('/api/transcribe')`
transcribeAudio ==
    /\ tpc \in TEnded
    /\ typingShown' = TRUE
    /\ tpc' = "fetching"
    /\ UNCHANGED <<activeRequests, messageCount, slowNotices, pc, retryCount,
                   slowNoticeTimer, response, delayMs, dispatches,
                   userEntries, bot, chips>>
    /\ UNCHANGED serverVars

\* a recording ended and its audio reaches transcribeAudio
TranscribeStart ==
    /\ transcribeAudio
    /\ UNCHANGED <<captureVars, pageVars>>

\* the fetch of /api/transcribe settles: ok, not ok (throws), or rejects;
\* the catch block renders 'Error transcribing audio'
TranscribeFetch(o) ==
    /\ tpc = "fetching"
    /\ typingShown' = FALSE
    /\ tpc' = IF o = "ok" THEN "parsing" ELSE "failed"
    /\ UNCHANGED <<activeRequests, messageCount, slowNotices, pc, retryCount,
                   slowNoticeTimer, response, delayMs, dispatches,
                   userEntries, bot, chips>>
    /\ UNCHANGED otherVars

\* response.json() of the transcription settles: a non-blank transcript is
\* sent as a message, a blank one renders 'Could not understand audio', a
\* body that is not JSON lands in the catch block
TranscribeJson(t) ==
    /\ tpc = "parsing"
    /\ IF t = "transcript"
       THEN /\ NextId \in Msgs
            /\ sendMessage(NextId, 0)
            /\ tpc' = "sent"
       ELSE /\ tpc' = IF t = "blank" THEN "notunderstood" ELSE "failed"
            /\ typingShown' = IF t = "blank" THEN typingShown ELSE FALSE
            /\ UNCHANGED <<activeRequests, messageCount, slowNotices, pc,
                           retryCount, slowNoticeTimer, response,
                           delayMs, dispatches, userEntries, bot, chips>>
    /\ UNCHANGED otherVars

\* ------------------------------------------------------------------- next
\* the steps of message m's sendMessage invocations and of its timers
MsgStep(m) ==
    \/ FetchReject(m)
    \/ AbortFire(m)
    \/ SlowNoticeFire(m)
    \/ \E st \in Statuses : FetchResolve(m, st)
    \/ \E d \in Bodies : JsonSettle(m, d)
    \/ BackoffElapsed(m)

\* typed and clicked messages and their processing
SendNext ==
    \/ UserSend
    \/ \E m \in Msgs : MsgStep(m)

\* the voice path
VoiceNext ==
    \/ TranscribeStart
    \/ \E o \in {"ok", "nonok", "reject"} : TranscribeFetch(o)
    \/ \E t \in {"transcript", "blank", "badjson"} : TranscribeJson(t)

Next == SendNext \/ VoiceNext

Spec == Init /\ [][Next]_vars

\* The event loop keeps running a message's continuations: a pending fetch
\* settles (at the latest by the 58 s abort), a timer fires, a body read and
\* a backoff delay complete.
Fairness == \A m \in Msgs : WF_vars(MsgStep(m))

\* Termination of sendMessage is checked on the sends alone: no guard of a
\* message step reads what transcribeAudio writes (typingShown, tpc), and a
\* transcript enters sendMessage exactly as a typed message does.
FairSpec == Init /\ [][SendNext]_vars /\ Fairness

\* the same with the voice path running
FairVoiceSpec == Spec /\ Fairness

TypeOK ==
    /\ activeRequests \in Nat
    /\ messageCount \in 0..(MaxEarlier + MaxMsgs)
    /\ typingShown \in BOOLEAN
    /\ pc \in [Msgs -> {"idle", "fetching", "parsing", "backoff", "done"}]
    /\ retryCount \in [Msgs -> 0..1]
    /\ response \in [Msgs -> Statuses \cup {"none"}]
    /\ delayMs \in [Msgs -> {0, 2000, 2500, 3000}]
    /\ tpc \in TEnded \cup {"fetching", "parsing"}

\* -------------------------------------------------------- suggestion chips
\* the chip sets on screen: set 0 was there before message 1 (the page's
\* #initial-suggestions, or the set of an earlier reply), set m came with
\* the reply to message m
ChipSets == {0} \cup {m \in Msgs : chips[m] # "none"}

\* a click event reaches a chip of set s: handleSuggestionClick(chip).
\* Nothing in the script detaches the listener or disables the button; the
\* class 'used' is all that changes.
handleSuggestionClick(s) ==
    /\ s \in ChipSets
    /\ usedSets' = usedSets \cup {s}
    /\ UNCHANGED isSending
    /\ NextId \in Msgs
    /\ sendMessage(NextId, 0)
    /\ UNCHANGED voiceVars
    /\ UNCHANGED <<serverVars, captureVars>>

ClickNext ==
    \/ \E s \in 0..MaxMsgs : handleSuggestionClick(s)
    \/ \E m \in Msgs : MsgStep(m)

\* messages sent by clicking chips
ClickSpec == Init /\ [][ClickNext]_vars

\* The widget later in a session: MaxEarlier exchanges at most have ended
\* with a reply and are not followed any more; the messages followed are
\* the next ones.
ChipsInit ==
    /\ messageCount \in 0..MaxEarlier
    /\ NoMessages
    /\ ProxyInit
    /\ data = Null
    /\ extracted = Undef
    /\ SessionInit
    /\ RecorderInit
    /\ supported = CandidateSet

ChipsSpec == ChipsInit /\ [][SendNext]_vars

\* ------------------------------------------- the input-locking version
\* chat-widget.js, lines 1 to 333: the version of the widget that locks the
\* input while it waits.  It has no activeRequests, no messageCount and no
\* chips; its timers, typing indicator and bubbles are those of the later
\* version.
\* setInputLocked(locked)
setInputLocked(locked) == isSending' = locked

\* sendMessage(text, {retryCount: rc}) from its entry to `await fetch(...)`,
\* but for the lock
LockedSend(m, rc) ==
    /\ retryCount' = [retryCount EXCEPT ![m] = rc]
    /\ userEntries' = [userEntries EXCEPT ![m] = IF rc = 0 THEN @ + 1 ELSE @]
    /\ typingShown' = TRUE
    /\ slowNoticeTimer' = [slowNoticeTimer EXCEPT ![m] =
                             IF rc = 0 THEN "pending" ELSE "none"]
    /\ response' = [response EXCEPT ![m] = "none"]
    /\ delayMs' = [delayMs EXCEPT ![m] = 0]
    /\ dispatches' = [dispatches EXCEPT ![m] = @ + 1]
    /\ pc' = [pc EXCEPT ![m] = "fetching"]
    /\ UNCHANGED <<activeRequests, messageCount, slowNotices, bot, chips>>

\* what no step of the input-locking version touches
LockedFrame ==
    /\ UNCHANGED voiceVars
    /\ UNCHANGED usedSets
    /\ UNCHANGED <<serverVars, captureVars>>

\* a click on Send, or Enter, with text in the input: both handlers return
\* at once while isSending, else sendMessage(message), which locks the input
SendClick ==
    /\ ~isSending
    /\ NextId \in Msgs
    /\ LockedSend(NextId, 0)
    /\ setInputLocked(TRUE)
    /\ LockedFrame

\* transcribeAudio got a non-blank transcript: sendMessage(transcript)
TranscriptSend ==
    /\ NextId \in Msgs
    /\ LockedSend(NextId, 0)
    /\ setInputLocked(TRUE)
    /\ LockedFrame

\* addMessage(text, false), then the finally block: setInputLocked(false)
LockedRender(m, text) ==
    /\ bot' = [bot EXCEPT ![m] = Append(@, text)]
    /\ pc' = [pc EXCEPT ![m] = "done"]
    /\ response' = [response EXCEPT ![m] = "none"]
    /\ setInputLocked(FALSE)
    /\ UNCHANGED delayMs

\* setInputLocked(false); await new Promise(r => setTimeout(r, ms))
LockedBackoff(m, ms) ==
    /\ setInputLocked(FALSE)
    /\ delayMs' = [delayMs EXCEPT ![m] = ms]
    /\ pc' = [pc EXCEPT ![m] = "backoff"]
    /\ UNCHANGED <<bot, response>>

\* the catch block
LockedCatch(m, isTimeout) ==
    /\ slowNoticeTimer' = [slowNoticeTimer EXCEPT ![m] = clearTimeout(@)]
    /\ slowNotices' = removeSlowNotice(slowNotices)
    /\ typingShown' = FALSE
    /\ IF CatchRetries(retryCount[m], isTimeout)
       THEN /\ LockedBackoff(m, 3000)
            /\ response' = [response EXCEPT ![m] = "none"]
       ELSE LockedRender(m, IF isTimeout THEN "timeout" ELSE "hiccup")
    /\ UNCHANGED <<activeRequests, messageCount, retryCount, dispatches,
                   userEntries, chips>>

\* fetch rejects with a network error
LockedFetchReject(m) ==
    /\ pc[m] = "fetching"
    /\ LockedCatch(m, FALSE)
    /\ LockedFrame

\* the 58 s clientTimeout fires
LockedAbortFire(m) ==
    /\ pc[m] = "fetching"
    /\ slowNoticeTimer[m] # "pending"
    /\ LockedCatch(m, TRUE)
    /\ LockedFrame

\* fetch resolves with an answer of status class st; up to
\* `await response.json()`
LockedFetchResolve(m, st) ==
    /\ pc[m] = "fetching"
    /\ slowNoticeTimer' = [slowNoticeTimer EXCEPT ![m] = clearTimeout(@)]
    /\ slowNotices' = removeSlowNotice(slowNotices)
    /\ typingShown' = FALSE
    /\ response' = [response EXCEPT ![m] = st]
    /\ pc' = [pc EXCEPT ![m] = "parsing"]
    /\ UNCHANGED <<activeRequests, messageCount, retryCount, delayMs,
                   dispatches, userEntries, bot, chips, isSending>>
    /\ LockedFrame

\* response.json() settles with body d; the rest of the try block, the
\* catch block when json() rejects or the ok branch throws, and finally
LockedJsonSettle(m, d) ==
    /\ pc[m] = "parsing"
    /\ IF d = "badjson" \/ (response[m] = "ok" /\ ThrowsOnOk(d))
       THEN LockedCatch(m, FALSE)
       ELSE /\ IF response[m] # "ok"
               THEN IF HasServerMsg(d) THEN LockedRender(m, "server")
                    ELSE IF CanRetry(retryCount[m])
                         THEN LockedBackoff(m, 2500)
                         ELSE LockedRender(m, "trouble")
               ELSE IF Usable(d) THEN LockedRender(m, "reply")
                    ELSE IF CanRetry(retryCount[m])
                         THEN LockedBackoff(m, 2000)
                         ELSE LockedRender(m, "didntcatch")
            /\ UNCHANGED <<activeRequests, messageCount, typingShown,
                           slowNotices, retryCount, slowNoticeTimer,
                           dispatches, userEntries, chips>>
    /\ LockedFrame

\* the backoff delay elapses: return sendMessage(text, {retryCount:
\* retryCount + 1}), which runs to its fetch without locking; then the
\* finally block of the invocation that returns: setInputLocked(false)
LockedBackoffElapsed(m) ==
    /\ pc[m] = "backoff"
    /\ LockedSend(m, retryCount[m] + 1)
    /\ setInputLocked(FALSE)
    /\ LockedFrame

\* the 15 s timer of a first attempt fires while its fetch is pending
LockedSlowNoticeFire(m) ==
    /\ pc[m] = "fetching"
    /\ slowNoticeTimer[m] = "pending"
    /\ slowNoticeTimer' = [slowNoticeTimer EXCEPT ![m] = "none"]
    /\ slowNotices' = Append(slowNotices, m)
    /\ typingShown' = TRUE
    /\ UNCHANGED <<activeRequests, messageCount, pc, retryCount, response,
                   delayMs, dispatches, userEntries, bot, chips, isSending>>
    /\ LockedFrame

LockedNext ==
    \/ SendClick
    \/ TranscriptSend
    \/ \E m \in Msgs :
          \/ LockedFetchReject(m)
          \/ LockedAbortFire(m)
          \/ \E st \in Statuses : LockedFetchResolve(m, st)
          \/ \E d \in Bodies : LockedJsonSettle(m, d)
          \/ LockedBackoffElapsed(m)
          \/ LockedSlowNoticeFire(m)

\* the input-locking version of the widget
LockedSpec == Init /\ [][LockedNext]_vars

\* ---------------------------------------------------------- audio capture
\* startRecording, stopRecording and the recorder's callbacks.  One blob
\* is followed through its FileReader at a time.
MaxChunks == 2
MaxPending == 2
MaxRecordings == 2

\* MediaRecorder.isTypeSupported(type)
isTypeSupported_always(type) == TRUE
isTypeSupported(type) == type \in supported

\* for (const type of candidates) if (...) return type; return ''
RECURSIVE FirstSupported(_)
FirstSupported(i) ==
    IF i > Len(Candidates) THEN ""
    ELSE IF isTypeSupported(Candidates[i]) THEN Candidates[i]
    ELSE FirstSupported(i + 1)

getSupportedMimeType == FirstSupported(1)

\* what a recorder constructed without a mimeType option reports as its
\* mimeType: the platform's own choice, or '' until it has started
PlatformDefaults == {"", "audio/aac"}

\* mediaRecorder.mimeType of new MediaRecorder(stream, mimeType ? {mimeType} : {})
ReportedTypes(mimeType) ==
    IF mimeType # "" THEN {mimeType} ELSE PlatformDefaults

\* mediaRecorder.mimeType || mimeType || 'audio/webm'
RecordedAs(reported, mimeType) ==
    IF reported # "" THEN reported
    ELSE IF mimeType # "" THEN mimeType
    ELSE "audio/webm"

\* the type a recorder encodes in when none was requested
PlatformEncoding == "audio/aac"

\* the encoding negotiated for the recording of recorder rec
Negotiated(rec) ==
    IF rec.requested # "" THEN rec.requested ELSE PlatformEncoding

\* e.data.size of a dataavailable event
ChunkSizes == 0..1

\* new Blob(audioChunks).size
RECURSIVE BlobSize(_)
BlobSize(chunks) ==
    IF chunks = <<>> THEN 0 ELSE Head(chunks).size + BlobSize(Tail(chunks))

\* blob.size === 0
BlobIsEmpty_never(size) == FALSE
BlobIsEmpty(size) == size = 0

\* the streams getUserMedia has handed out, by number
Recordings == 1..Len(streams)

\* the recorders that record although the script holds them no more: each
\* was replaced in `mediaRecorder` by the recorder of a later stream
Orphans ==
    {id \in Recordings :
        /\ streams[id] = "live"
        /\ mediaRecorder = Null \/ mediaRecorder.id # id}

\* stopRecording(); audioStream is set and cleared together with
\* mediaRecorder and is the stream of the recorder held
stopRecording ==
    /\ isRecording' = FALSE
    /\ IF mediaRecorder # Null /\ mediaRecorder.state # "inactive"
       THEN /\ Len(onstopQueued) < MaxPending
            /\ onstopQueued' = Append(onstopQueued, mediaRecorder)
       ELSE UNCHANGED onstopQueued
    /\ streams' = IF mediaRecorder # Null
                  THEN [streams EXCEPT ![mediaRecorder.id] = "stopped"]
                  ELSE streams
    /\ mediaRecorder' = Null
    /\ UNCHANGED <<supported, audioChunks, recordedMimeType, asking, reader,
                   recNotice>>

\* a click on the mic button: startRecording() up to
\* `await getUserMedia(...)`, or stopRecording()
MicClick ==
    /\ IF ~isRecording
       THEN /\ asking < MaxPending
            /\ Len(streams) + asking < MaxRecordings
            /\ asking' = asking + 1
            /\ UNCHANGED <<supported, isRecording, mediaRecorder, audioChunks,
                           recordedMimeType, onstopQueued, reader, recNotice,
                           streams>>
       ELSE stopRecording
    /\ UNCHANGED <<widgetVars, pageVars, serverVars>>

\* getUserMedia settles: with a stream, and startRecording builds and
\* starts the recorder; or with a rejection, and its catch block renders
\* 'Could not access microphone'
GetUserMediaSettles(granted, reported) ==
    /\ asking > 0
    /\ asking' = asking - 1
    /\ IF granted
       THEN LET mimeType == getSupportedMimeType
            IN  /\ reported \in ReportedTypes(mimeType)
                /\ streams' = Append(streams, "live")
                /\ audioChunks' = <<>>
                /\ mediaRecorder' = [id |-> Len(streams) + 1,
                                     requested |-> mimeType,
                                     mimeType |-> reported,
                                     state |-> "recording",
                                     delivered |-> 0]
                /\ recordedMimeType' = RecordedAs(reported, mimeType)
                /\ isRecording' = TRUE
                /\ UNCHANGED recNotice
       ELSE /\ reported = ""
            /\ recNotice' = "micerror"
            /\ UNCHANGED <<isRecording, mediaRecorder, audioChunks,
                           recordedMimeType, streams>>
    /\ UNCHANGED <<supported, onstopQueued, reader>>
    /\ UNCHANGED <<widgetVars, pageVars, serverVars>>

\* audioChunks.push(e.data) when e.data.size > 0
Push(id, size) ==
    IF size > 0 THEN Append(audioChunks, [size |-> size, from |-> id])
    ELSE audioChunks

\* rec with one more chunk delivered to the script
Delivered(rec, size) ==
    IF size > 0 THEN [rec EXCEPT !.delivered = @ + 1] ELSE rec

\* ondataavailable of the recorder held
DataAvailable(size) ==
    /\ mediaRecorder # Null
    /\ mediaRecorder.state = "recording"
    /\ Len(audioChunks) < MaxChunks
    /\ audioChunks' = Push(mediaRecorder.id, size)
    /\ mediaRecorder' = Delivered(mediaRecorder, size)
    /\ UNCHANGED <<supported, isRecording, recordedMimeType, asking,
                   onstopQueued, reader, recNotice, streams>>
    /\ UNCHANGED <<widgetVars, pageVars, serverVars>>

\* ondataavailable of a stopped recorder, which delivers its last chunk
\* before its stop event
LastDataAvailable(size) ==
    /\ onstopQueued # <<>>
    /\ Len(audioChunks) < MaxChunks
    /\ audioChunks' = Push(Head(onstopQueued).id, size)
    /\ onstopQueued' = <<Delivered(Head(onstopQueued), size)>>
                           \o Tail(onstopQueued)
    /\ UNCHANGED <<supported, isRecording, mediaRecorder, recordedMimeType,
                   asking, reader, recNotice, streams>>
    /\ UNCHANGED <<widgetVars, pageVars, serverVars>>

\* ondataavailable of a recorder that still records although the script
\* holds it no more
OrphanDataAvailable(id, size) ==
    /\ id \in Orphans
    /\ Len(audioChunks) < MaxChunks
    /\ audioChunks' = Push(id, size)
    /\ UNCHANGED <<supported, isRecording, mediaRecorder, recordedMimeType,
                   asking, onstopQueued, reader, recNotice, streams>>
    /\ UNCHANGED <<widgetVars, pageVars, serverVars>>

\* the recorder held stops by itself (its track ended)
RecorderEnds ==
    /\ mediaRecorder # Null
    /\ mediaRecorder.state = "recording"
    /\ Len(onstopQueued) < MaxPending
    /\ mediaRecorder' = [mediaRecorder EXCEPT !.state = "inactive"]
    /\ onstopQueued' = Append(onstopQueued, mediaRecorder')
    /\ streams' = [streams EXCEPT ![mediaRecorder.id] = "stopped"]
    /\ UNCHANGED <<supported, isRecording, audioChunks, recordedMimeType,
                   asking, reader, recNotice>>
    /\ UNCHANGED <<widgetVars, pageVars, serverVars>>

\* mediaRecorder.onstop of the recorder stopped first, up to
\* reader.readAsDataURL(blob)
OnStop ==
    /\ onstopQueued # <<>>
    /\ onstopQueued' = Tail(onstopQueued)
    /\ IF BlobIsEmpty(BlobSize(audioChunks))
       THEN /\ recNotice' = "noaudio"
            /\ UNCHANGED reader
       ELSE /\ reader = Null
            /\ reader' = [size |-> BlobSize(audioChunks),
                          type |-> recordedMimeType]
            /\ UNCHANGED recNotice
    /\ UNCHANGED <<supported, isRecording, mediaRecorder, audioChunks,
                   recordedMimeType, asking, streams>>
    /\ UNCHANGED <<widgetVars, pageVars, serverVars>>

\* reader.onloadend: transcribeAudio(reader.result.split(',')[1], recordedMimeType)
ReaderLoadEnd ==
    /\ reader # Null
    /\ reader' = Null
    /\ transcribeAudio
    /\ UNCHANGED <<supported, isRecording, mediaRecorder, audioChunks,
                   recordedMimeType, asking, onstopQueued, recNotice,
                   streams>>
    /\ UNCHANGED pageVars

CaptureNext ==
    \/ MicClick
    \/ \E reported \in PlatformDefaults \cup CandidateSet :
          GetUserMediaSettles(TRUE, reported)
    \/ GetUserMediaSettles(FALSE, "")
    \/ \E size \in ChunkSizes : DataAvailable(size)
    \/ \E size \in ChunkSizes : LastDataAvailable(size)
    \/ \E id \in 1..MaxRecordings, size \in ChunkSizes :
          OrphanDataAvailable(id, size)
    \/ RecorderEnds
    \/ OnStop
    \/ ReaderLoadEnd

\* on any platform
CaptureInit ==
    /\ LoadedInit
    /\ supported \in SUBSET CandidateSet

\* the capture code alone, on every platform
CaptureSpec == CaptureInit /\ [][CaptureNext]_vars

\* the voice path from the mic button to the message sent
VoicePathNext ==
    \/ CaptureNext
    \/ \E o \in {"ok", "nonok", "reject"} : TranscribeFetch(o)
    \/ \E t \in {"transcript", "blank", "badjson"} : TranscribeJson(t)

VoicePathSpec == Init /\ [][VoicePathNext]_vars

\* ------------------------------------------------------------ chat proxy
\* The handler of unnamed/part_001 (lines 1-175), one invocation at a time.
\* Time is the sum of what the invocation awaited: each webhook call takes
\* a latency of LatencyMs, or TimeoutMs when it is aborted; a backoff takes
\* RetryDelayMs.
Methods == {"OPTIONS", "GET", "POST"}

\* req.body: an object (or JSON string) with a message, one without a
\* message, or a string that is not JSON
ReqBodies == {"message", "nomessage", "badjson"}

\* the sessionId of the request body: none, or a token
SessionIds == {Undef, Str(<<"s1">>)}

Requests == [method : Methods, body : ReqBodies, sessionId : SessionIds]

\* sessionId: sessionId || 'unknown' in the body sent to the webhook
ForwardedSessionId(sessionId) ==
    IF Truthy(sessionId) THEN sessionId ELSE Str(<<"unknown">>)

\* o?.f
Get(o, f) == IF o.t = "obj" /\ f \in DOMAIN o.v THEN o.v[f] ELSE Undef

\* const payload = Array.isArray(data) ? data[0] : data
Payload(d) ==
    IF d.t = "arr" THEN IF d.v = <<>> THEN Undef ELSE d.v[1] ELSE d

\* payload?.sessionId || payload?.json?.sessionId || sessionId
ReturnedSessionId(d, sessionId) ==
    IF Truthy(Get(Payload(d), "sessionId")) THEN Get(Payload(d), "sessionId")
    ELSE IF Truthy(Get(Payload(d), "json.sessionId"))
         THEN Get(Payload(d), "json.sessionId")
    ELSE sessionId

\* what fetchWithTimeout can end in: an answer of a status class, a
\* rejection (network error), or the abort at timeoutMs
Outcomes == {"ok", "4xx", "5xx", "neterr", "timeout"}

\* an object with the single field p
Item1(p, x) == Obj([q \in Paths |-> IF q = p THEN x ELSE Undef])

\* the object item with a `suggestions` field added
WithSuggestions(item, s) ==
    Obj([q \in Paths \cup {"suggestions"} |->
            IF q = "suggestions" THEN s ELSE item.v[q]])

\* the object item with the field f added (f is sessionId or json.sessionId)
WithSessionId(item, f, x) ==
    Obj([q \in DOMAIN item.v \cup {f} |-> IF q = f THEN x ELSE item.v[q]])

NotJson == [t |-> "notjson", v |-> <<>>]

\* rawText of the webhook's answer: not JSON, or JSON of these shapes
RawTexts ==
    { NotJson,
      Item1("response", Str(<<"a">>)),
      Item1("response", Str(<<" ">>)),
      Item1("output", Str(<<" ", "b", " ">>)),
      Item1("json.output", Str(<<"a">>)),
      Item1("response", Undef),
      WithSuggestions(Item1("response", Str(<<"a">>)), Arr(<<Str(<<"c">>)>>)),
      WithSuggestions(Item1("response", Str(<<"a">>)), Arr(<<>>)),
      Arr(<<WithSuggestions(Item1("output", Str(<<"b">>)),
                            Arr(<<Str(<<"c">>), Str(<<"d">>)>>))>>),
      WithSessionId(Item1("response", Str(<<"a">>)), "sessionId", Str(<<"s1">>)),
      WithSessionId(Item1("response", Str(<<"a">>)), "sessionId", Str(<<"w">>)),
      Arr(<<WithSessionId(Item1("response", Str(<<"a">>)), "json.sessionId",
                          Str(<<"w">>))>>),
      Arr(<<Item1("text", Str(<<"a">>))>>),
      Arr(<<Item1("response", Undef), Item1("response", Str(<<"b">>))>>),
      Arr(<<>>) }

\* req.method === 'OPTIONS'
IsPreflight_never(r) == FALSE
IsPreflight(r) == r.method = "OPTIONS"

\* res.status(status).json({error, response}), "" and Undef for a field
\* that is not set: no answer of the handler has a `suggestions` field.
\* The CORS headers were set first.
Send(status, error, text) ==
    /\ res' = [status |-> status, cors |-> TRUE, bare |-> FALSE,
               error |-> error, response |-> text, sessionId |-> Undef,
               suggestions |-> Undef, transcript |-> Undef, success |-> FALSE]
    /\ ppc' = "done"

\* res.status(200).json({response, sessionId, timestamp})
SendReply(text, sessionId) ==
    /\ res' = [status |-> 200, cors |-> TRUE, bare |-> FALSE, error |-> "",
               response |-> text, sessionId |-> sessionId,
               suggestions |-> Undef, transcript |-> Undef, success |-> FALSE]
    /\ ppc' = "done"

\* res.status(status).end(): no body
End(status) ==
    /\ res' = [status |-> status, cors |-> TRUE, bare |-> TRUE, error |-> "",
               response |-> Undef, sessionId |-> Undef, suggestions |-> Undef,
               transcript |-> Undef, success |-> FALSE]
    /\ ppc' = "done"

\* the catch block of the handler
Respond500(err) ==
    Send(500, "Failed to process message",
         IF IsTimeout(err) THEN TimeoutMsg ELSE HiccupMsg)

\* the handler from its entry to its first await (or its early return)
HandlerStart(r, hasUrl) ==
    /\ ppc \in {"idle", "done"}
    /\ req' = r
    /\ elapsed' = 0
    /\ lastError' = "none"
    /\ n8nResponse' = "none"
    /\ IF IsPreflight(r) THEN
           End(200) /\ attempt' = 0 /\ calls' = <<>>
       ELSE IF r.method # "POST" THEN
           Send(405, "Method not allowed", Undef)
               /\ attempt' = 0 /\ calls' = <<>>
       ELSE IF r.body = "badjson" THEN
           Send(400, "Invalid JSON body", Undef)
               /\ attempt' = 0 /\ calls' = <<>>
       ELSE IF r.body = "nomessage" THEN
           Send(400, "Message is required", Undef)
               /\ attempt' = 0 /\ calls' = <<>>
       ELSE IF ~hasUrl THEN
           Send(500, "Server configuration error", Undef)
               /\ attempt' = 0 /\ calls' = <<>>
       ELSE /\ attempt' = 1
            /\ calls' = <<[start |-> 0, end |-> 0, outcome |-> "pending",
                           sessionId |-> ForwardedSessionId(r.sessionId)]>>
            /\ ppc' = "fetch"
            /\ res' = NoRes
    /\ data' = Null
    /\ UNCHANGED <<widgetVars, pageVars, captureVars, extracted, sessionVars>>

\* attempt++ and the loop test, at time t with the calls cs made so far:
\* the next fetchWithTimeout, or `throw lastError` into the handler's catch
LoopNext(cs, t, err) ==
    /\ attempt' = attempt + 1
    /\ IF attempt + 1 <= Retries
       THEN /\ calls' = Append(cs, [start |-> t, end |-> t,
                                    outcome |-> "pending",
                                    sessionId |-> ForwardedSessionId(req.sessionId)])
            /\ ppc' = "fetch"
            /\ res' = res
       ELSE /\ calls' = cs
            /\ Respond500(err)

\* the pending fetchWithTimeout settles with outcome o after d ms
AttemptSettles(o, d) ==
    /\ ppc = "fetch"
    /\ IF o = "timeout" THEN d = TimeoutMs ELSE d \in LatencyMs
    /\ elapsed' = elapsed + d
    /\ LET cs == [calls EXCEPT ![Len(calls)] =
                    [@ EXCEPT !.end = elapsed + d, !.outcome = o]]
       IN  IF o \in {"ok", "4xx", "5xx"}
           THEN /\ calls' = cs
                /\ IF RetryOn5xx(o, attempt)
                   THEN ppc' = "retrywait" /\ n8nResponse' = n8nResponse
                   ELSE ppc' = "read" /\ n8nResponse' = o
                /\ UNCHANGED <<attempt, lastError, res>>
           ELSE /\ lastError' = IF o = "timeout" THEN "AbortError" ELSE "neterr"
                /\ n8nResponse' = n8nResponse
                /\ IF RetryAfterThrow(attempt)
                   THEN /\ ppc' = "retrywait"
                        /\ calls' = cs
                        /\ UNCHANGED <<attempt, res>>
                   ELSE LoopNext(cs, elapsed + d, lastError')
    /\ UNCHANGED <<req, served>>
    /\ UNCHANGED <<widgetVars, pageVars, captureVars, extractVars, sessionVars>>

\* the backoff delay elapses: the loop goes on
BackoffDone ==
    /\ ppc = "retrywait"
    /\ elapsed' = elapsed + RetryDelayMs
    /\ LoopNext(calls, elapsed + RetryDelayMs, lastError)
    /\ UNCHANGED <<req, lastError, n8nResponse, served>>
    /\ UNCHANGED <<widgetVars, pageVars, captureVars, extractVars, sessionVars>>

\* n8nResponse.text() settles with rawText; the rest of the try block
ReadSettles(raw) ==
    /\ ppc = "read"
    /\ IF n8nResponse # "ok" THEN Respond500("webhookError")
       ELSE IF raw = NotJson THEN Respond500("invalidJson")
       ELSE IF extractResponseText(raw).t # "str" THEN Respond500("noText")
       ELSE SendReply(extractResponseText(raw),
                      ReturnedSessionId(raw, req.sessionId))
    /\ data' = IF n8nResponse = "ok" /\ raw # NotJson THEN raw ELSE data
    /\ UNCHANGED <<req, attempt, lastError, n8nResponse, calls, elapsed, served>>
    /\ UNCHANGED <<widgetVars, pageVars, captureVars, extracted, sessionVars>>

\* a request arrives; N8N_WEBHOOK_URL is configured or not
Invoke ==
    /\ \E r \in Requests, hasUrl \in BOOLEAN : HandlerStart(r, hasUrl)
    /\ UNCHANGED served

ProxyNext ==
    \/ Invoke
    \/ \E o \in Outcomes, d \in LatencyMs \cup {TimeoutMs} : AttemptSettles(o, d)
    \/ BackoffDone
    \/ \E raw \in RawTexts : ReadSettles(raw)

ProxySpec == Init /\ [][ProxyNext]_vars

\* ------------------------------------------------------ the first proxy
\* The handler of chat-initial-using-antigravity.js (lines 1-65), one
\* invocation at a time: one call of the webhook, no retry, no timeout, and
\* the webhook's JSON passed on as it is.
SorryMsg == Str(<<"Sorry, I encountered an error. Please try again.">>)

\* res.status(status).json({error, response}), or .end() when bare, with
\* the CORS headers set before or not
InitialAnswer(status, cors, bare, error, text, sessionId) ==
    /\ res' = [status |-> status, cors |-> cors, bare |-> bare,
               error |-> error, response |-> text, sessionId |-> sessionId,
               suggestions |-> Undef, transcript |-> Undef, success |-> FALSE]
    /\ ppc' = "done"

\* the timestamp of the request body: none, or the client's
Timestamps == {Undef, Str(<<"t1">>)}

\* the requests: those of the chat proxy with their timestamp, and requests
\* without a body, whose req.body is undefined
InitialRequests ==
    [method : Methods, body : ReqBodies, sessionId : SessionIds,
     timestamp : Timestamps]
    \cup [method : Methods, body : {"absent"}, sessionId : {Undef},
          timestamp : {Undef}]

\* timestamp: timestamp || new Date().toISOString() in the body sent to the
\* webhook
ForwardedTimestamp(timestamp) ==
    IF Truthy(timestamp) THEN timestamp ELSE Str(<<"now">>)

\* the catch block
InitialCatch ==
    InitialAnswer(500, TRUE, FALSE, "Failed to process message", SorryMsg,
                  Undef)

\* the handler from its entry to `await fetch(n8nWebhookUrl, ...)`, or to
\* its early return.  A body that is a string has no `message`;
\* destructuring an undefined body throws into the catch block.
InitialHandler(r, hasUrl) ==
    /\ ppc \in {"idle", "done"}
    /\ req' = r
    /\ n8nResponse' = "none"
    /\ data' = Null
    /\ elapsed' = 0
    /\ IF r.method # "POST" THEN
           /\ InitialAnswer(405, FALSE, FALSE, "Method not allowed", Undef,
                            Undef)
           /\ calls' = <<>>
       ELSE IF IsPreflight(r) THEN
           /\ InitialAnswer(200, TRUE, TRUE, "", Undef, Undef)
           /\ calls' = <<>>
       ELSE IF r.body = "absent" THEN
           /\ InitialCatch
           /\ calls' = <<>>
       ELSE IF r.body # "message" THEN
           /\ InitialAnswer(400, TRUE, FALSE, "Message is required", Undef,
                            Undef)
           /\ calls' = <<>>
       ELSE IF ~hasUrl THEN
           /\ InitialAnswer(500, TRUE, FALSE, "Server configuration error",
                            Undef, Undef)
           /\ calls' = <<>>
       ELSE /\ calls' = <<[start |-> 0, end |-> 0, outcome |-> "pending",
                           sessionId |-> ForwardedSessionId(r.sessionId),
                           timestamp |-> ForwardedTimestamp(r.timestamp)]>>
            /\ ppc' = "fetch"
            /\ res' = NoRes
    /\ UNCHANGED <<attempt, lastError, served>>
    /\ UNCHANGED <<widgetVars, pageVars, captureVars, extracted, sessionVars>>

\* the fetch settles after d ms: with an answer, up to
\* `await response.json()` or to the throw of `n8n webhook error`; or with
\* a rejection
InitialFetchSettles(o, d) ==
    /\ ppc = "fetch"
    /\ elapsed' = elapsed + d
    /\ calls' = [calls EXCEPT ![1] = [@ EXCEPT !.end = d, !.outcome = o]]
    /\ IF o = "ok"
       THEN /\ ppc' = "read"
            /\ n8nResponse' = o
            /\ res' = res
       ELSE /\ InitialCatch
            /\ n8nResponse' = n8nResponse
    /\ UNCHANGED <<req, attempt, lastError, served, data>>
    /\ UNCHANGED <<widgetVars, pageVars, captureVars, extracted, sessionVars>>

\* response.json() settles: res.status(200).json(data), or the catch block
\* when the body is not JSON
InitialJsonSettles(raw) ==
    /\ ppc = "read"
    /\ IF raw = NotJson
       THEN InitialCatch /\ data' = data
       ELSE /\ InitialAnswer(200, TRUE, FALSE, "", Get(raw, "response"),
                             Get(raw, "sessionId"))
            /\ data' = raw
    /\ UNCHANGED <<req, attempt, lastError, n8nResponse, calls, elapsed,
                   served>>
    /\ UNCHANGED <<widgetVars, pageVars, captureVars, extracted, sessionVars>>

InitialNext ==
    \/ \E r \in InitialRequests, hasUrl \in BOOLEAN :
          InitialHandler(r, hasUrl)
    \/ \E o \in {"ok", "4xx", "5xx", "neterr"}, d \in LatencyMs :
          InitialFetchSettles(o, d)
    \/ \E raw \in RawTexts : InitialJsonSettles(raw)

InitialSpec == Init /\ [][InitialNext]_vars

\* ----------------------------------------------------- transcription proxy
\* The handler of api/transcribe.js (lines 1-133), one invocation at a
\* time.  A string is the sequence of its tokens: "data:", ";", ",", " ",
\* the words between them, and the characters of a base64 payload.

\* the position of the first tok in s, 0 if there is none
RECURSIVE FirstIndex(_, _)
FirstIndex(s, tok) ==
    IF s = <<>> THEN 0
    ELSE IF Head(s) = tok THEN 1
    ELSE IF FirstIndex(Tail(s), tok) = 0 THEN 0
    ELSE FirstIndex(Tail(s), tok) + 1

\* audio.startsWith('data:')
StartsWithData(a) == a # <<>> /\ a[1] = "data:"

\* audio.match(/^data:([^;]+);base64,(.+)$/): the first group cannot hold a
\* ';', so it ends at the first one
DataUrlMatches(a) ==
    LET k == FirstIndex(a, ";")
    IN  /\ k > 2
        /\ Len(a) >= k + 3
        /\ a[k + 1] = "base64"
        /\ a[k + 2] = ","

\* matches[1] and matches[2]
MatchedType(a) == SubSeq(a, 2, FirstIndex(a, ";") - 1)
MatchedPayload(a) == SubSeq(a, FirstIndex(a, ";") + 3, Len(a))

\* the characters of the base64 alphabet among the tokens used here
B64Chars == {"Q", "R"}

\* Buffer.from(b, 'base64').length: 6 bits per alphabet character, whole
\* bytes only; padding and other characters carry nothing
DecodedLength(b) ==
    (Cardinality({i \in 1..Len(b) : b[i] \in B64Chars}) * 3) \div 4

\* audioBuffer.length === 0
BufferIsEmpty_never(n) == FALSE
BufferIsEmpty(n) == n = 0

\* detectedMimeType.split(';')[0]
BeforeSemicolon(t) ==
    IF FirstIndex(t, ";") = 0 THEN t ELSE SubSeq(t, 1, FirstIndex(t, ";") - 1)

\* String.prototype.toLowerCase(), word by word
LowerWord(w) ==
    IF w = "AUDIO/MPEG" THEN "audio/mpeg"
    ELSE IF w = "Video/WebM" THEN "video/webm"
    ELSE w

ToLowerCase(t) == [i \in 1..Len(t) |-> LowerWord(t[i])]

\* const baseType = detectedMimeType.split(';')[0].trim().toLowerCase()
BaseType(t) == ToLowerCase(Trim(BeforeSemicolon(t)))

\* mimeMap[baseType] || baseType
MimeMap_identity(b) == b
MimeMap(b) ==
    IF b = <<"audio/x-m4a">> THEN <<"audio/mp4">>
    ELSE IF b = <<"audio/mpeg">> THEN <<"audio/mp3">>
    ELSE IF b = <<"video/webm">> THEN <<"audio/webm">>
    ELSE IF b = <<"video/mp4">> THEN <<"audio/mp4">>
    ELSE b

ContentType(t) == MimeMap(BaseType(t))

\* mimeType || 'audio/webm;codecs=opus'
DeclaredOrDefault(mt) ==
    IF mt = <<>> THEN <<"audio/webm", ";", "codecs=opus">> ELSE mt

\* base64 payloads: none, ones that decode to nothing, ones that decode
B64Payloads == {<<>>, <<"=">>, <<"Q">>, <<"Q", "R">>, <<"Q", "R", "Q", "R">>}

\* media types as a data URL carries them
UrlTypes == {<<>>, <<"audio/webm">>, <<"Video/WebM">>,
             <<"audio/webm", ";", "codecs=opus">>}

\* body.audio: a bare base64 string or a data URL
Audios ==
    B64Payloads
        \cup {<<"data:">> \o t \o <<";", "base64", ",">> \o b :
                 t \in UrlTypes, b \in B64Payloads}
        \cup {<<"data:", "audio/webm", ",", "Q", "R">>}

\* body.mimeType, <<>> when it is missing
MimeTypes == {<<>>, <<"audio/webm", ";", "codecs=opus">>, <<"AUDIO/MPEG">>,
              <<" ", "audio/x-m4a", " ">>, <<"video/mp4">>, <<"audio/ogg">>}

TRequests ==
    [method : Methods, body : {"badjson"}, audio : {<<>>}, mimeType : {<<>>}]
        \cup [method : Methods, body : {"json"}, audio : Audios,
              mimeType : MimeTypes]

\* res.status(200).json({ transcript, success: true })
SendTranscript(t) ==
    /\ res' = [status |-> 200, cors |-> TRUE, bare |-> FALSE, error |-> "",
               response |-> Undef, sessionId |-> Undef, suggestions |-> Undef,
               transcript |-> t, success |-> TRUE]
    /\ ppc' = "done"

\* the request to the engine once the audio a with the detected type t is
\* accepted, or the 400 for an empty buffer
DecodeAndCall(a, t) ==
    IF BufferIsEmpty(DecodedLength(a))
    THEN Send(400, "Audio buffer is empty after decoding", Undef)
             /\ calls' = <<>>
    ELSE /\ calls' = <<[detectedMimeType |-> t, base64Data |-> a,
                        contentType |-> ContentType(t),
                        bytes |-> DecodedLength(a), outcome |-> "pending"]>>
         /\ ppc' = "engine"
         /\ res' = NoRes

\* the handler from its entry to `await fetch(deepgramUrl, ...)`, or to its
\* early return
TranscribeHandler(r, hasKey) ==
    /\ ppc \in {"idle", "done"}
    /\ req' = r
    /\ elapsed' = 0
    /\ attempt' = 0
    /\ lastError' = "none"
    /\ n8nResponse' = "none"
    /\ IF IsPreflight(r) THEN End(200) /\ calls' = <<>>
       ELSE IF r.method # "POST" THEN
           Send(405, "Method not allowed", Undef) /\ calls' = <<>>
       ELSE IF r.body = "badjson" THEN
           Send(400, "Invalid JSON body", Undef) /\ calls' = <<>>
       ELSE IF r.audio = <<>> THEN
           Send(400, "Audio data is required", Undef) /\ calls' = <<>>
       ELSE IF ~hasKey THEN
           Send(500, "Server configuration error", Undef) /\ calls' = <<>>
       ELSE IF StartsWithData(r.audio)
       THEN IF DataUrlMatches(r.audio)
            THEN DecodeAndCall(MatchedPayload(r.audio), MatchedType(r.audio))
            ELSE Send(400, "Malformed audio data URL", Undef) /\ calls' = <<>>
       ELSE DecodeAndCall(r.audio, DeclaredOrDefault(r.mimeType))
    /\ data' = Null
    /\ UNCHANGED <<widgetVars, pageVars, captureVars, served, extracted, sessionVars>>

\* a request arrives; DEEPGRAM_API_KEY is configured or not
TInvoke == \E r \in TRequests, hasKey \in BOOLEAN : TranscribeHandler(r, hasKey)

\* the fetch of the engine settles: an ok or a non-ok answer, or it rejects
\* and the catch block answers
EngineSettles(o) ==
    /\ ppc = "engine"
    /\ calls' = [calls EXCEPT ![1].outcome = o]
    /\ IF o = "neterr" THEN Send(500, "Transcription failed", Undef)
       ELSE ppc' = "engineread" /\ res' = res
    /\ UNCHANGED <<req, attempt, lastError, n8nResponse, elapsed>>
    /\ UNCHANGED <<widgetVars, pageVars, captureVars, served, extractVars, sessionVars>>

\* what the engine's body is: not JSON; JSON null; JSON without the
\* transcript path; with an empty, a whitespace-only or a spoken transcript
EngineBodies == {"notjson", "null", "nopath", "empty", "blank", "text"}

\* data?.results?.channels?.[0]?.alternatives?.[0]?.transcript || ''
TranscriptOf_noDefault(b) ==
    IF b = "text" THEN Str(<<"hello">>)
    ELSE IF b = "blank" THEN Str(<<" ">>)
    ELSE Undef

TranscriptOf(b) ==
    IF b = "text" THEN Str(<<"hello">>)
    ELSE IF b = "blank" THEN Str(<<" ">>)
    ELSE Str(<<>>)

\* deepgramResponse.text() settles; the rest of the try block
EngineRead(b) ==
    /\ ppc = "engineread"
    /\ IF calls[1].outcome # "ok" THEN Send(500, "Transcription failed", Undef)
       ELSE IF b = "notjson" THEN Send(500, "Transcription failed", Undef)
       ELSE SendTranscript(TranscriptOf(b))
    /\ UNCHANGED <<req, attempt, lastError, n8nResponse, calls, elapsed>>
    /\ UNCHANGED <<widgetVars, pageVars, captureVars, served, extractVars, sessionVars>>

TranscribeNext ==
    \/ TInvoke
    \/ \E o \in {"ok", "nonok", "neterr"} : EngineSettles(o)
    \/ \E b \in EngineBodies : EngineRead(b)

TranscribeSpec == Init /\ [][TranscribeNext]_vars

\* both endpoints, one invocation at a time
EndpointsSpec == Init /\ [][ProxyNext \/ TranscribeNext]_vars

\* ------------------------------------------------- widget and chat proxy
\* One message followed end to end: each fetch('/api/chat') of the widget
\* is one invocation of the handler, and what the fetch settles with is
\* what the handler sent, unless the 58 s abort comes first.  The network
\* between the two adds no delay and does not fail.

\* response.ok and the status class as the widget sees it
ClientStatus(status) ==
    IF status >= 200 /\ status <= 299 THEN "ok"
    ELSE IF status >= 500 THEN "5xx" ELSE "4xx"

\* the body as the widget reads it (the answer's `message` field is set
\* only together with `response`)
ClientBody(r) ==
    IF NonBlankString(r.response)
    THEN IF r.suggestions.t = "arr" /\ r.suggestions.v # <<>> THEN "textSugg"
         ELSE IF r.suggestions.t = "undef" THEN "text"
         ELSE "textNoList"
    ELSE IF Truthy(r.response) THEN "blank"
    ELSE "empty"

E2ESend ==
    /\ NextId = 1
    /\ UserSend

E2ESlowNotice == SlowNoticeFire(1)

\* the dispatched request reaches the handler
E2EInvoke ==
    /\ pc[1] = "fetching"
    /\ served < dispatches[1]
    /\ \E hasUrl \in BOOLEAN :
          HandlerStart([method |-> "POST", body |-> "message",
                        sessionId |-> Str(<<"s1">>)], hasUrl)
    /\ served' = served + 1

\* the handler's answer arrives before the abort timer fires
E2EResolve ==
    /\ ppc = "done"
    /\ served = dispatches[1]
    /\ elapsed < ClientTimeoutMs
    /\ FetchResolve(1, ClientStatus(res.status))

E2EJson == JsonSettle(1, ClientBody(res))

\* 58 s have passed without an answer
E2EAbort ==
    /\ served = dispatches[1]
    /\ elapsed >= ClientTimeoutMs
    /\ AbortFire(1)

E2ERetry == BackoffElapsed(1)

E2ENext ==
    \/ E2ESend
    \/ E2ESlowNotice
    \/ E2EInvoke
    \/ \E o \in Outcomes, d \in LatencyMs \cup {TimeoutMs} : AttemptSettles(o, d)
    \/ BackoffDone
    \/ \E raw \in RawTexts : ReadSettles(raw)
    \/ E2EResolve
    \/ E2EJson
    \/ E2EAbort
    \/ E2ERetry

E2ESpec == Init /\ [][E2ENext]_vars

\* ---------------------------------------------------- extractResponseText
\* The function applied to every payload of a bounded family.
Strs == {<<>>, <<" ">>, <<"a">>, <<" ", "b", " ">>}

\* what a field can hold: a string, or something that is not a string
FieldVals == {Num} \cup {Str(x) : x \in Strs}

\* the objects with at most k of the fields ps set
ItemsWith(ps, k) ==
    UNION {{Obj([p \in Paths |-> IF p \in S THEN g[p] ELSE Undef]) :
               g \in [S -> FieldVals]} :
           S \in {T \in SUBSET ps : Cardinality(T) <= k}}

\* array elements: objects with at most one field, a direct one, or null
Elems == ItemsWith({"response", "output", "text"}, 1) \cup {Null}

\* the fields set in a bare object: the first, the second and the last of
\* the direct ones and of the nested ones
SetPaths == {"response", "output", "answer",
             "json.response", "json.output", "body.response"}

Payloads ==
    ItemsWith(SetPaths, MaxFields)
        \cup {Null}
        \cup UNION {{Arr(e) : e \in [1..n -> Elems]} : n \in 0..MaxElems}

ExtractInit ==
    /\ WidgetInit
    /\ ProxyInit
    /\ SessionInit
    /\ RecorderInit
    /\ supported = CandidateSet
    /\ data \in Payloads
    /\ extracted = Undef

\* const responseText = extractResponseText(data)
Extract ==
    /\ extracted = Undef
    /\ extracted' = extractResponseText(data)
    /\ UNCHANGED <<widgetVars, pageVars, captureVars, proxyVars, served, data, sessionVars>>

ExtractSpec == ExtractInit /\ [][Extract]_vars

\* ------------------------------------------------------------ getSessionId
\* getSessionId() with the random suffix rnd drawn when a token is created
getSessionId(rnd) ==
    /\ Len(returned) < MaxGets
    /\ IF NeedsNewId(storage)
       THEN /\ storage' = Token(now, rnd)
            /\ returned' = Append(returned, Token(now, rnd))
       ELSE /\ storage' = storage
            /\ returned' = Append(returned, storage)
    /\ UNCHANGED <<widgetVars, pageVars, captureVars, proxyVars, served, extractVars, now>>

\* the user or the browser clears the site's local storage
ClearStorage ==
    /\ storage # Absent
    /\ storage' = Absent
    /\ UNCHANGED <<widgetVars, pageVars, captureVars, proxyVars, served, extractVars, now, returned>>

\* a millisecond passes
Tick ==
    /\ now < MaxClock
    /\ now' = now + 1
    /\ UNCHANGED <<widgetVars, pageVars, captureVars, proxyVars, served, extractVars, storage, returned>>

SessionNext ==
    \/ \E rnd \in Rands : getSessionId(rnd)
    \/ ClearStorage
    \/ Tick

SessionSpec == Init /\ [][SessionNext]_vars

\* ================================================================ claims
\* a message whose send has started and has not rendered its final bot bubble
Outstanding(m) == pc[m] \in {"fetching", "parsing", "backoff"}

NumOutstanding == Cardinality({m \in Msgs : Outstanding(m)})

C2_IndicatorIffActive == typingShown <=> (activeRequests > 0)

\* C3: activeRequests equals the number of messages whose send has started
\* and has not yet rendered its final bot message.
C3_CounterIsInFlight == activeRequests = NumOutstanding

\* C4: when no send is outstanding (nothing in flight, no retry pending,
\* no transcription running) the typing indicator is not shown.
C4_QuietMeansHidden ==
    (NumOutstanding = 0 /\ tpc \in TEnded) => ~typingShown

\* C5: while two or more messages are in flight, a step of one of them
\* (its fetch settling, its answer being handled) does not hide the
\* typing indicator.
C5_ConcurrentKeepsIndicator ==
    [][\A m \in Msgs :
          (NumOutstanding >= 2 /\ Outstanding(m) /\ pc'[m] # pc[m] /\ typingShown)
              => typingShown']_vars

\* C6: activeRequests is never negative.
C6_NeverNegative == activeRequests >= 0

C6_Witness ==
    /\ activeRequests = 0
    /\ \E m1, m2 \in Msgs :
          m1 # m2 /\ pc[m1] = "parsing" /\ pc[m2] \in {"parsing", "done"}

\* C7: a logical message is dispatched to /api/chat at most twice;
\* retryCount is 0 or 1 and an attempt with retryCount 1 schedules no retry.
C7_AtMostTwoDispatches ==
    \A m \in Msgs :
        /\ dispatches[m] <= 2
        /\ retryCount[m] \in {0, 1}
        /\ pc[m] = "backoff" => retryCount[m] = 0

C7_Witness ==
    \E m \in Msgs :
        /\ pc[m] = "done" /\ dispatches[m] = 2 /\ retryCount[m] = 1
        /\ bot[m] \in {<<"trouble">>, <<"didntcatch">>, <<"hiccup">>}

\* C8: a retry is pending only after (a) a 5xx answer with no embedded
\* message, (b) an ok answer with a blank reply, or (c) a thrown failure
\* that is not a client abort; never after a 4xx answer.
C8_RetryOnlyFor ==
    \A m \in Msgs :
        pc[m] = "backoff" =>
            \/ delayMs[m] = 2500 /\ response[m] = "5xx"
            \/ delayMs[m] = 2000 /\ response[m] = "ok"
            \/ delayMs[m] = 3000

\* C9: when the 58 s deadline aborts a fetch, with retryCount 0 as with 1,
\* the message is not dispatched again: the "taking longer than usual" text
\* is rendered and the send is over for good.
C9_AbortNeverRetried ==
    [][\A m \in Msgs :
          /\ AbortFire(m) =>
                /\ pc'[m] = "done"
                /\ bot'[m] = Append(bot[m], "timeout")
                /\ dispatches'[m] = dispatches[m]
          /\ pc[m] = "done" =>
                /\ pc'[m] = "done"
                /\ dispatches'[m] = dispatches[m]]_vars

C9_Witness ==
    \E m \in Msgs : pc[m] = "done" /\ retryCount[m] = 0 /\ bot[m] = <<"timeout">>

C11_BlankReplyPolicy ==
    [][\A m \in Msgs :
          /\ \A d \in {"blank", "empty"} :
                (JsonSettle(m, d) /\ response[m] = "ok" /\ retryCount[m] = 0) =>
                    /\ pc'[m] = "backoff"
                    /\ delayMs'[m] = 2000
                    /\ bot'[m] = bot[m]
          /\ \A d \in {"blank", "empty"} :
                (JsonSettle(m, d) /\ response[m] = "ok" /\ retryCount[m] = 1) =>
                    /\ pc'[m] = "done"
                    /\ bot'[m] = Append(bot[m], "didntcatch")
                    /\ dispatches'[m] = 2
          /\ (pc[m] = "backoff" /\ delayMs[m] = 2000 /\ pc'[m] # "backoff") =>
                /\ pc'[m] = "fetching"
                /\ retryCount'[m] = 1
                /\ dispatches'[m] = 2
          /\ (pc[m] = "done" /\ retryCount[m] = 1) =>
                /\ pc'[m] = "done"
                /\ dispatches'[m] = 2]_vars

C11_Witness ==
    \E m \in Msgs :
        pc[m] = "done" /\ bot[m] = <<"didntcatch">> /\ dispatches[m] = 2

\* the round trip of message m's latest attempt has settled
Settled(m) == pc[m] \in {"parsing", "backoff", "done"}

\* C12: once a message's round trip has settled, its 15 s timer is
\* cancelled and no 'Still working' notice of that message is rendered,
\* then or later; once all messages have settled no notice is left.
C12_NoticeGoneOnceSettled ==
    /\ \A m \in Msgs :
          Settled(m) =>
              /\ slowNoticeTimer[m] # "pending"
              /\ \A i \in 1..Len(slowNotices) : slowNotices[i] # m
    /\ (\A m \in Msgs : pc[m] = "idle" \/ Settled(m)) => slowNotices = <<>>

\* C13: per invocation the webhook is called at most 2 times, the second
\* call starts 2000 ms after the first ended, and nothing is awaited
\* between the end of the final call and the handler's next step.
C13_AtMostTwoCalls ==
    /\ Len(calls) <= 2
    /\ Len(calls) = 2 => calls[2].start = calls[1].end + 2000
    /\ (ppc \in {"read", "done"} /\ calls # <<>>) =>
           elapsed = calls[Len(calls)].end

C13_Witness ==
    /\ ppc = "done"
    /\ Len(calls) = 2
    /\ calls[2].start = calls[1].end + 2000
    /\ calls[2].outcome \in {"neterr", "timeout"}

\* C14: a second webhook call is made only after the first one returned a
\* 5xx answer: a 4xx answer, a network failure and an attempt aborted at
\* its deadline are all surfaced without a second call.
C14_SecondOnlyAfter5xx ==
    (ppc = "retrywait" \/ Len(calls) >= 2) => calls[1].outcome = "5xx"

\* C15: every 5xx answer the proxy sends to a POST carries a non-blank
\* fallback text in its response field.
C15_ServerErrorHasText ==
    (ppc = "done" /\ req.method = "POST" /\ res.status >= 500) =>
        NonBlankString(res.response)

\* C16: when the webhook answers none of the proxy's calls within the
\* deadline, the text rendered for the message is the proxy's timeout
\* message, never the widget's own 'taking longer than usual'.
C16_ProxyTimeoutWins ==
    (pc[1] = "done" /\ served = 1 /\ calls # <<>>
        /\ \A i \in 1..Len(calls) : calls[i].outcome = "timeout") =>
        /\ bot[1] = <<"server">>
        /\ res.response = TimeoutMsg

\* C19: when the webhook answers 503 to both calls of the first dispatch,
\* the proxy answers 500 with the 'hiccup' text, and the widget renders
\* exactly that text without dispatching again.
C19_Double503 ==
    (served = 1 /\ Len(calls) = 2
        /\ calls[1].outcome = "5xx" /\ calls[2].outcome = "5xx") =>
        /\ ppc = "done" => (res.status = 500 /\ res.response = HiccupMsg)
        /\ pc[1] = "done" =>
              (bot[1] = <<"server">> /\ dispatches[1] = 1 /\ ppc = "done")

\* the values of the candidate fields in the order they are tried: element
\* by element, the direct fields, then the nested ones
RECURSIVE CandidateValues(_)
CandidateValues(candidates) ==
    IF candidates = <<>> THEN <<>>
    ELSE IF Head(candidates).t # "obj" THEN CandidateValues(Tail(candidates))
    ELSE [i \in 1..Len(DirectPaths) |-> Head(candidates).v[DirectPaths[i]]]
            \o [i \in 1..Len(NestedPaths) |-> Head(candidates).v[NestedPaths[i]]]
            \o CandidateValues(Tail(candidates))

\* C17: extractResponseText returns the trimmed text of the first candidate
\* field, in priority order, that holds a non-blank string, and null only
\* when no candidate field holds one.
C17_FirstNonBlankField ==
    extracted # Undef =>
        LET vals == CandidateValues(IF data.t = "arr" THEN data.v ELSE <<data>>)
            held == SelectSeq(vals, NonBlankString)
        IN  IF held = <<>> THEN extracted = Null
            ELSE extracted = Str(Trim(held[1].v))

\* C18: for an array of more than one element the text is taken from the
\* first element only: the result is what the first element alone yields.
C18_FirstElementOnly ==
    (extracted # Undef /\ data.t = "arr" /\ Len(data.v) > 1) =>
        extracted = extractResponseText(data.v[1])

\* the value the latest getSessionId call returned
LastReturned(r) == r[Len(r)]

\* C20 as stated: a call over non-empty storage returns the stored token
\* and leaves it as it is; the key is written only when it is absent; and
\* the first call after the storage was cleared stores a token different
\* from the previous one.
C20_AlwaysFreshAfterClear ==
    [][returned' # returned =>
          /\ storage' = LastReturned(returned')
          /\ storage # Absent => storage' = storage
          /\ (storage = Absent /\ returned # <<>>) =>
                LastReturned(returned') # LastReturned(returned)]_vars

\* C20: a call over non-empty storage returns the stored token and leaves
\* it as it is; the key is written only when it is absent; the first call
\* after the storage was cleared stores a token made of the clock reading
\* of that call and a random suffix, which differs from the previous token
\* whenever the clock reading differs from that token's.
C20_StableUntilCleared ==
    [][returned' # returned =>
          /\ storage' = LastReturned(returned')
          /\ storage # Absent => storage' = storage
          /\ storage = Absent =>
                /\ \E rnd \in Rands : storage' = Token(now, rnd)
                /\ (returned # <<>> /\ LastReturned(returned)[1] # now) =>
                      LastReturned(returned') # LastReturned(returned)]_vars

C20_Witness ==
    /\ Len(returned) = 3
    /\ returned[1] = returned[2]
    /\ returned[3] # returned[2]
    /\ storage = returned[3]

\* C21: both endpoints answer OPTIONS with a bare 200 and any other method
\* than POST with 405, every answer carries the CORS headers, and a request
\* that is not a POST makes no upstream call.
C21_MethodsAndCors ==
    /\ ppc = "done" => res.cors
    /\ (ppc = "done" /\ req.method = "OPTIONS") =>
           (res.status = 200 /\ res.bare)
    /\ (ppc = "done" /\ req.method \notin {"OPTIONS", "POST"}) =>
           res.status = 405
    /\ req.method # "POST" => calls = <<>>

C21_Witness ==
    /\ ppc = "done"
    /\ "audio" \in DOMAIN req
    /\ req.method = "OPTIONS"
    /\ res.status = 200
    /\ res.bare
    /\ res.cors

\* the bytes the audio of request r decodes to: of the payload of a data
\* URL, else of the string itself
AudioBytes(r) ==
    IF StartsWithData(r.audio) /\ FirstIndex(r.audio, ",") > 0
    THEN DecodedLength(SubSeq(r.audio, FirstIndex(r.audio, ",") + 1,
                              Len(r.audio)))
    ELSE DecodedLength(r.audio)

\* a POST whose JSON body the transcription proxy has answered
AnsweredAudioPost ==
    /\ ppc = "done"
    /\ "audio" \in DOMAIN req
    /\ req.method = "POST"
    /\ req.body = "json"

DataUrlComma(a) ==
    LET c == FirstIndex(a, ",")
    IN  IF /\ StartsWithData(a)
           /\ c > 4
           /\ a[c - 1] = "base64"
           /\ a[c - 2] = ";"
        THEN c ELSE 0

\* C24: a POST whose audio is a data URL with a payload that decodes to at
\* least one byte is accepted (given the API key), the type embedded in the
\* URL is the detected type, and only the payload after the comma is
\* decoded.
C24_DataUrlAccepted ==
    (/\ ppc # "idle"
     /\ "audio" \in DOMAIN req
     /\ req.method = "POST"
     /\ req.body = "json"
     /\ DataUrlComma(req.audio) > 0
     /\ AudioBytes(req) > 0
     /\ res.error # "Server configuration error") =>
        /\ calls # <<>>
        /\ calls[1].detectedMimeType =
               SubSeq(req.audio, 2, DataUrlComma(req.audio) - 3)
        /\ calls[1].base64Data =
               SubSeq(req.audio, DataUrlComma(req.audio) + 1, Len(req.audio))

C26_EmptyTranscriptIsOk ==
    [][\A b \in EngineBodies :
          EngineRead(b) =>
              /\ (calls[1].outcome = "ok" /\ b \in {"null", "nopath", "empty"}) =>
                    /\ res'.status = 200
                    /\ res'.transcript = Str(<<>>)
                    /\ res'.success
              /\ res'.status >= 400 <=>
                    (calls[1].outcome # "ok" \/ b = "notjson")]_vars

C26_Witness ==
    /\ ppc = "done"
    /\ "audio" \in DOMAIN req
    /\ calls # <<>>
    /\ calls[1].outcome = "ok"
    /\ res.status = 200
    /\ res.transcript = Str(<<>>)
    /\ res.success

\* C23: a recording that assembles to zero bytes gets the 'No audio
\* captured' bubble and reaches neither the FileReader nor transcribeAudio;
\* the audio posted to /api/transcribe comes from a blob of at least one
\* byte; and transcribeAudio calls sendMessage only after an ok answer
\* whose transcript is non-blank.
C23_NoEmptyContentForwarded ==
    [][/\ (OnStop /\ BlobSize(audioChunks) = 0) =>
              /\ recNotice' = "noaudio"
              /\ reader' = reader
              /\ tpc' = tpc
       /\ (tpc' = "fetching" /\ tpc # "fetching") =>
              /\ reader # Null
              /\ reader.size > 0
       /\ userEntries' # userEntries =>
              /\ tpc = "parsing"
              /\ TranscribeJson("transcript")
       /\ \A t \in {"blank", "badjson"} :
              TranscribeJson(t) => /\ userEntries' = userEntries
                                   /\ dispatches' = dispatches]_vars

C23_Witness ==
    /\ recNotice = "noaudio"
    /\ tpc = "sent"
    /\ \E m \in Msgs : userEntries[m] = 1

\* C27: the type startRecording asks the recorder for is the first entry
\* of the candidate list that the platform supports, whatever the set of
\* supported types is: '' when it supports none, audio/ogg when it supports
\* only audio/ogg, and never a type the platform does not support.
C27_FirstSupportedChosen ==
    mediaRecorder # Null =>
        LET r == mediaRecorder.requested
        IN  /\ (\A i \in 1..Len(Candidates) : Candidates[i] \notin supported)
                  => r = ""
            /\ \A i \in 1..Len(Candidates) :
                  (/\ Candidates[i] \in supported
                   /\ \A j \in 1..(i - 1) : Candidates[j] \notin supported)
                  => r = Candidates[i]
            /\ r # "" => r \in supported
            /\ supported = {"audio/ogg"} => r = "audio/ogg"
            /\ Candidates = << "audio/webm;codecs=opus", "audio/webm",
                               "audio/ogg;codecs=opus", "audio/ogg",
                               "audio/mp4;codecs=mp4a", "audio/mp4" >>

C27_Witness ==
    /\ supported = {"audio/ogg"}
    /\ mediaRecorder # Null
    /\ mediaRecorder.requested = "audio/ogg"

\* message m's invocation renders the webhook's reply in this step
RendersReply(m) == bot'[m] = Append(bot[m], "reply")

\* C28: the fallback chips are a function of messageCount alone (at most 1:
\* exploratory, 2 or 3: action, 4 and more: conversion); messageCount never
\* decreases and is advanced by exactly one with each usable reply rendered,
\* before its chips are chosen, so the first reply of a session gets the
\* exploratory chips.
C28_FallbackByMessageCount ==
    [][/\ messageCount' >= messageCount
       /\ messageCount' # messageCount <=> \E m \in Msgs : RendersReply(m)
       /\ \A m \in Msgs :
             RendersReply(m) =>
                /\ messageCount' = messageCount + 1
                /\ chips'[m] \in
                      {"payload",
                       CASE messageCount' <= 1 -> "explore"
                         [] messageCount' \in 2..3 -> "action"
                         [] messageCount' >= 4 -> "convert"}
                /\ (messageCount = 0 /\ chips'[m] # "payload") =>
                      chips'[m] = "explore"]_vars

C28_Witness ==
    /\ messageCount >= 4
    /\ \E m \in Msgs : bot[m] = <<"reply">> /\ chips[m] = "convert"
    /\ \E m \in Msgs : bot[m] = <<"reply">> /\ chips[m] = "action"

\* C29: with a usable reply the chips are the payload's suggestions when
\* they are a non-empty array and the contextual fallback otherwise; in
\* every other step (error, server-text, fallback-text and retry paths
\* included) no chips are rendered.
C29_SuggestionsBeforeFallback ==
    [][\A m \in Msgs :
          /\ (JsonSettle(m, "textSugg") /\ response[m] = "ok") =>
                chips'[m] = "payload"
          /\ \A d \in {"text", "textNoList"} :
                (JsonSettle(m, d) /\ response[m] = "ok") =>
                    chips'[m] \in {"explore", "action", "convert"}
          /\ chips'[m] # chips[m] =>
                /\ RendersReply(m)
                /\ response[m] = "ok"
                /\ chips[m] = "none"
          /\ ~RendersReply(m) => chips'[m] = chips[m]]_vars

C29_Witness ==
    /\ \E m \in Msgs : bot[m] = <<"reply">> /\ chips[m] = "payload"
    /\ \E m \in Msgs : bot[m] = <<"reply">> /\ chips[m] = "action"

\* data.suggestions of the payload the proxy parsed: of its first element
\* when it is an array
WebhookSuggestions(d) ==
    LET payload == IF d.t = "arr"
                   THEN IF d.v = <<>> THEN Undef ELSE d.v[1]
                   ELSE d
    IN  IF payload.t = "obj" /\ "suggestions" \in DOMAIN payload.v
        THEN payload.v["suggestions"]
        ELSE Undef

\* C30: end to end through the chat proxy, when the webhook's reply carried
\* a non-empty suggestions list, the chips rendered with the reply are that
\* list and not the contextual fallback.
C30_WebhookSuggestionsRendered ==
    (/\ pc[1] = "done"
     /\ bot[1] = <<"reply">>
     /\ WebhookSuggestions(data).t = "arr"
     /\ WebhookSuggestions(data).v # <<>>) =>
        chips[1] = "payload"

\* C31: once a chip of a set has been clicked, a click on a chip of the
\* same set dispatches no message.
C31_UsedSetIsInert ==
    [][\A s \in usedSets :
          handleSuggestionClick(s) => dispatches' = dispatches]_vars

\* the 'Still working' notices of message n on screen
NoticesOf(ns, n) == {i \in 1..Len(ns) : ns[i] = n}

\* C32: a step of message m (its fetch settling, its abort firing, its
\* answer being handled) leaves every other message that is still pending
\* where it is, with its fetch, its timers and its 'Still working' notice.
C32_PendingRequestsIndependent ==
    [][\A m, n \in Msgs :
          (m # n /\ pc[n] = "fetching" /\ pc'[m] # pc[m]) =>
              /\ pc'[n] = "fetching"
              /\ slowNoticeTimer'[n] = slowNoticeTimer[n]
              /\ Cardinality(NoticesOf(slowNotices', n)) =
                     Cardinality(NoticesOf(slowNotices, n))]_vars

\* C33: every invocation of the chat proxy has answered before maxDuration
\* seconds have passed since the request, whatever its calls ended in.
C33_WithinMaxDuration ==
    (ppc # "idle" /\ "audio" \notin DOMAIN req) => elapsed < maxDuration * 1000

\* C34: for a request that carries a session token, the sessionId of the
\* 200 answer and the sessionId sent to the webhook with every call are
\* that token, whatever the webhook returned.
C34_SessionIdEchoed ==
    (ppc # "idle" /\ "sessionId" \in DOMAIN req /\ req.sessionId.t = "str") =>
        /\ \A i \in 1..Len(calls) : calls[i].sessionId = req.sessionId
        /\ (ppc = "done" /\ res.status = 200 /\ ~res.bare) =>
               res.sessionId = req.sessionId

\* C35: a message that has been sent has exactly one user entry, whatever
\* the number of its attempts; it has no bot entry while its send is going
\* on and exactly one once the send has finished; and entries are only
\* appended: no step removes or changes one.
C35_OneEntryEach ==
    /\ [](\A m \in Msgs :
             /\ userEntries[m] = (IF pc[m] = "idle" THEN 0 ELSE 1)
             /\ Len(bot[m]) = (IF pc[m] = "done" THEN 1 ELSE 0))
    /\ [][\A m \in Msgs :
             /\ userEntries'[m] >= userEntries[m]
             /\ Len(bot'[m]) >= Len(bot[m])
             /\ SubSeq(bot'[m], 1, Len(bot[m])) = bot[m]]_vars

C35_Witness ==
    \E m \in Msgs :
        /\ pc[m] = "done"
        /\ dispatches[m] = 2
        /\ userEntries[m] = 1
        /\ Len(bot[m]) = 1

\* C36: the blob built when a recorder's onstop runs carries the encoding
\* negotiated for that recorder's recording, on every platform, and holds
\* the non-empty chunks that recorder delivered and no others.
C36_BlobOfThatRecording ==
    [][(OnStop /\ reader' # reader) =>
          /\ reader'.type = Negotiated(Head(onstopQueued))
          /\ \A i \in 1..Len(audioChunks) :
                audioChunks[i].from = Head(onstopQueued).id
          /\ Len(audioChunks) = Head(onstopQueued).delivered]_vars

\* the streams whose tracks have not been stopped
LiveStreams == {id \in Recordings : streams[id] = "live"}

\* C38: at most one recording session is live: a mic click while
\* startRecording awaits microphone access starts no second one, at most one
\* stream is un-stopped at any time, isRecording is true exactly when a
\* recorder and its stream are held, and stopRecording leaves no stream
\* un-stopped.
C38_OneRecordingSession ==
    /\ [](/\ Cardinality(LiveStreams) <= 1
          /\ isRecording <=> mediaRecorder # Null)
    /\ [][(MicClick /\ isRecording) => LiveStreams' = {}]_vars

\* C37: in the input-locking version isSending is true from the moment a
\* message is sent until its final bot message is rendered, the silent retry
\* and its backoff included, so that a click on Send or Enter dispatches no
\* second message, and at most one logical message is outstanding.
C37_IsSendingPreventsDoubleSends ==
    /\ (\E m \in Msgs : pc[m] \notin {"idle", "done"}) => isSending
    /\ Cardinality({m \in Msgs : pc[m] \notin {"idle", "done"}}) <= 1

\* C39: the handler of chat-initial-using-antigravity.js sets the any-origin
\* CORS headers on every response, answers OPTIONS with a bare 200, and
\* answers the other methods that are not POST with 405.
C39_InitialHandlerCors ==
    ppc = "done" =>
        /\ res.cors
        /\ req.method = "OPTIONS" => (res.status = 200 /\ res.bare)
        /\ req.method \notin {"OPTIONS", "POST"} => res.status = 405

====
